---- MODULE Spec2Model ----
(***************************************************************************)
(* Model of pystockfish.Engine (src/pystockfish.py): a synchronous UCI     *)
(* client that owns one engine child process and talks to it over two      *)
(* line-oriented pipes.                                                    *)
(*                                                                         *)
(* Text read from the engine is a sequence of atoms; an atom is either one *)
(* whitespace character (" ", "\t", "\n") or a whitespace-free word.  The  *)
(* Python string it stands for is the concatenation of its atoms.  Lines   *)
(* written to the engine are plain strings.                                *)
(***************************************************************************)
EXTENDS Integers, Sequences, FiniteSets, TLC

(* ------------------------------ bounds --------------------------------- *)
\* number of public operations called on a constructed session
MaxOps == 2

(* --------------------------- python values ----------------------------- *)
\* A Python value of one of the types the option table can hold.
IntV(n) == [t |-> "int", i |-> n, s |-> ""]
StrV(x) == [t |-> "str", i |-> 0, s |-> x]
BoolV(b) == [t |-> "bool", i |-> IF b THEN 1 ELSE 0, s |-> ""]
\* the one-element tuple (n,)
Tuple1V(n) == [t |-> "tuple1", i |-> n, s |-> ""]

\* str(value)
Str(val) ==
  CASE val.t = "int" -> ToString(val.i)
    [] val.t = "str" -> val.s
    [] val.t = "bool" -> (IF val.i = 1 THEN "True" ELSE "False")
    [] val.t = "tuple1" -> "(" \o ToString(val.i) \o ",)"

(* ------------------------------ strings -------------------------------- *)
\* the characters str.strip() removes
Whitespace == {" ", "\t", "\n"}

RECURSIVE LStrip(_)
LStrip(s) == IF s # <<>> /\ Head(s) \in Whitespace THEN LStrip(Tail(s)) ELSE s

RECURSIVE RStrip(_)
RStrip(s) ==
  IF s # <<>> /\ s[Len(s)] \in Whitespace
  THEN RStrip(SubSeq(s, 1, Len(s) - 1))
  ELSE s

\* text.strip()
Strip(s) == RStrip(LStrip(s))

\* text.split(' '): cut at every single space; '' gives ['']
RECURSIVE Split(_)
Split(s) ==
  IF \E i \in 1..Len(s) : s[i] = " "
  THEN LET i == CHOOSE j \in 1..Len(s) :
                  s[j] = " " /\ \A k \in 1..(j - 1) : s[k] # " "
       IN <<SubSeq(s, 1, i - 1)>> \o Split(SubSeq(s, i + 1, Len(s)))
  ELSE <<s>>

\* the Python string a sequence of atoms stands for
RECURSIVE Flatten(_)
Flatten(s) == IF s = <<>> THEN "" ELSE Head(s) \o Flatten(Tail(s))

\* text.find(pat) >= 0, on atoms
Find(text, pat) ==
  \E i \in 0..(Len(text) - Len(pat)) :
    \A j \in 1..Len(pat) : text[i + j] = pat[j]

NoSuch == <<"No", " ", "such">>

(* --------------------------- option table ------------------------------ *)
\* base_param, in insertion order
BaseParam ==
  << [k |-> "Write Debug Log", v |-> StrV("false")],
     [k |-> "Contempt Factor", v |-> IntV(0)],
     [k |-> "Contempt", v |-> IntV(0)],
     [k |-> "Min Split Depth", v |-> IntV(0)],
     [k |-> "Threads", v |-> IntV(4)],
     [k |-> "Hash", v |-> IntV(128)],
     [k |-> "MultiPV", v |-> IntV(1)],
     [k |-> "Skill Level", v |-> IntV(20)],
     [k |-> "Move Overhead", v |-> IntV(30)],
     [k |-> "Minimum Thinking Time", v |-> IntV(20)],
     [k |-> "Slow Mover", v |-> IntV(80)],
     [k |-> "UCI_Chess960", v |-> StrV("false")] >>

\* d[k] = v on an insertion-ordered dict
SetItem(d, k, v) ==
  IF \E i \in DOMAIN d : d[i].k = k
  THEN [i \in DOMAIN d |-> IF d[i].k = k THEN [k |-> k, v |-> v] ELSE d[i]]
  ELSE Append(d, [k |-> k, v |-> v])

RECURSIVE UpdateMissing(_, _)
UpdateMissing(d, p) ==
  IF p = <<>>
  THEN d
  ELSE UpdateMissing(IF Head(p).k \in {d[i].k : i \in DOMAIN d}
                     THEN d
                     ELSE Append(d, Head(p)),
                     Tail(p))

\* d.update(p)
RECURSIVE Update(_, _)
Update(d, p) ==
  IF p = <<>> THEN d ELSE Update(SetItem(d, Head(p).k, Head(p).v), Tail(p))

\* the value randint(rand_min, rand_max), stores for a draw n
RandValue(n) == Tuple1V(n)

\* base_param after the "if rand:" block, for the draws r1 and r2
RandParam(rand, r1, r2) ==
  IF rand
  THEN SetItem(SetItem(BaseParam, "Contempt", RandValue(r1)),
               "Contempt Factor", RandValue(r2))
  ELSE BaseParam

\* 'setoption name %s value %s' % (optionname, str(value))
SetoptionLine(optionname, value) ==
  "setoption name " \o optionname \o " value " \o Str(value)

GoLineDefault(d) == "go depth 2"

\* 'go depth %s' % self.depth
GoLine(d) == "go depth " \o d

KeysOf(d) == {d[i].k : i \in DOMAIN d}
Lookup(d, k) == (CHOOSE i \in DOMAIN d : d[i].k = k)

(* ----------------------------- read loops ------------------------------ *)
IsreadyMatchAny(text) == TRUE
IsreadyMatchOrBestmove(text) ==
  Flatten(text) = "readyok" \/ Flatten(Split(text)[1]) = "bestmove"
IsreadyMatchOk(text) == Flatten(text) \in {"readyok", "uciok"}

\* isready: if text == 'readyok'
IsreadyMatch(text) == Flatten(text) = "readyok"

IsreadyReturnLine(line, text) == line

\* isready: return text
IsreadyReturn(line, text) == text

\* bestmove: if split_text[0] == 'bestmove'
BestmoveMatch(split_text) == Flatten(split_text[1]) = "bestmove"

\* the outcome of a call: still running, raised, returned a search result
\* (bestmove), returned a text (isready) or returned None
NoResult ==
  [kind |-> "none", exc |-> "", move |-> "", ponder |-> "", info |-> "",
   text |-> <<>>]
Raise(e) == [NoResult EXCEPT !.kind = "raise", !.exc = e]
Return(m, p, i) ==
  [NoResult EXCEPT !.kind = "return", !.move = m, !.ponder = p, !.info = i]
ReturnText(t) == [NoResult EXCEPT !.kind = "text", !.text = t]
ReturnNone == [NoResult EXCEPT !.kind = "None"]

BestmoveReturnNoExcept(split_text, last) ==
  IF Len(split_text) >= 4
  THEN Return(Flatten(split_text[2]), Flatten(split_text[4]), Flatten(last))
  ELSE Raise("IndexError")

\* bestmove: the try/except around the two return statements
BestmoveReturn(split_text, last) ==
  IF Len(split_text) >= 4
  THEN Return(Flatten(split_text[2]), Flatten(split_text[4]), Flatten(last))
  ELSE IF Len(split_text) >= 2
       THEN Return(Flatten(split_text[2]), "-", Flatten(last))
       ELSE Raise("IndexError")

\* bestmove: last_line = text at the end of an iteration
NextLastLine(old, text) == text

\* _movelisttostr: the for loop
RECURSIVE MoveLoop(_, _)
MoveLoop(movestr, moves) ==
  IF moves = <<>>
  THEN movestr
  ELSE MoveLoop(movestr \o Head(moves) \o <<" ">>, Tail(moves))

MoveListToStrNoStrip(moves) == MoveLoop(<<>>, moves)

\* _movelisttostr(moves)
MoveListToStr(moves) == Strip(MoveLoop(<<>>, moves))

\* 'position startpos moves %s' % self._movelisttostr(moves)
PositionLine(moves) == "position startpos moves " \o Flatten(MoveListToStr(moves))

\* 'position fen %s' % fen
FenLine(fen) == "position fen " \o fen

(* --------------------------- engine output ----------------------------- *)
NL == "\n"
ReadyokLine == <<"readyok", NL>>
UciokLine == <<"uciok", NL>>
NoSuchLine(name) == <<"No", " ", "such", " ", "option:", " ", name, NL>>

\* option names the engine build at hand does not have (builds differ: some
\* have "Contempt", others "Contempt Factor")
UnknownOptions == {"Contempt Factor", "Min Split Depth", "Foo"}

\* lines the engine may print ahead of a bestmove line
InfoLines ==
  { <<" ", "info", " ", "depth", " ", "1", "\t", NL>>,
    <<NL>> }

\* the forms of the line that ends a search
BestmoveLines ==
  { <<"bestmove", " ", "e2e4", " ", "ponder", " ", "e7e5", NL>>,
    <<"bestmove", " ", "e2e4", NL>>,
    <<"bestmove", " ", "e2e4", " ", "ponder", NL>>,
    <<"bestmove", NL>>,
    <<" ", "bestmove", " ", " ", "e2e4", "\t", NL>>,
    <<"bestmove", "\t", "e2e4", " ", "ponder", " ", "e7e5", NL>> }

(* ------------------------------- inputs -------------------------------- *)
\* depths passed to the constructor
Depths == {1, 2}

\* option-override mappings passed to the constructor
ParamChoices ==
  { <<>>,
    <<[k |-> "Threads", v |-> IntV(1)]>>,
    <<[k |-> "Ponder", v |-> StrV("true")], [k |-> "Contempt", v |-> IntV(5)]>>,
    <<[k |-> "Foo", v |-> IntV(7)], [k |-> "Hash", v |-> IntV(16)]>> }

\* (rand_min, rand_max) pairs passed to the constructor
RandRanges == { <<-1, 1>>, <<2, 2>>, <<1, 0>> }

\* move lists passed to setposition; a move is a sequence of atoms
MoveLists ==
  { <<>>,
    << <<"e2e4">>, <<"e7e5">> >>,
    << <<" ", "e2e4">>, <<>>, <<"e7e5", " ">> >> }

\* FEN strings passed to setfenposition
Fens == { "8/8/8/8/8/8/8/8 w - - 0 1" }

(* -------------------------------- state -------------------------------- *)
VARIABLES
  pc,         \* where the caller's thread is
  op,         \* the public operation running, or the last one that ran
  ret_pc,     \* where isready returns to
  ret,        \* outcome of the call in progress / of the last call
  depth,      \* self.depth
  ponder,     \* self.ponder
  param,      \* self.param
  args,       \* arguments of __init__ still to be used
  optIdx,     \* position of the for loop of __init__ in list(base_param.items())
  optName,    \* setoption's optionname, "" outside setoption
  last_line,  \* bestmove's last_line
  warnings,   \* option names printed by setoption
  written,    \* lines written to the engine's stdin, oldest first
  stdin,      \* commands the engine has not yet processed
  stdout,     \* lines the engine has printed and the session has not read
  alive,      \* the engine process is running
  searching,  \* id of the go command the engine is searching for, 0 if none
  readyCount, \* readyok lines read by isready so far
  sentCount,  \* uciok, readyok and bestmove lines read so far
  callReads,  \* lines read by the read loop in progress / last run
  eofSeen,    \* a readline has returned '' at end-of-stream
  sawNoSuch,  \* the isready in progress has read a line containing 'No such'
  rejected,   \* options whose setoption read a 'No such' line
  nops        \* public operations called so far

vars ==
  <<pc, op, ret_pc, ret, depth, ponder, param, args, optIdx, optName,
    last_line, warnings, written, stdin, stdout, alive, searching,
    readyCount, sentCount, callReads, eofSeen, sawNoSuch, rejected, nops>>

sessionVars ==
  <<depth, ponder, param, args, optIdx, optName, last_line, warnings>>
engineVars == <<stdout, alive, searching>>
readVars == <<readyCount, sentCount, callReads, eofSeen, sawNoSuch, rejected>>

NoArgs ==
  [depth |-> 0, param |-> <<>>, rand |-> FALSE, rand_min |-> 0, rand_max |-> 0]

Init ==
  /\ pc = "new"
  /\ op = "none"
  /\ ret_pc = "idle"
  /\ ret = NoResult
  /\ depth = ""
  /\ ponder = FALSE
  /\ param = <<>>
  /\ args = NoArgs
  /\ optIdx = 0
  /\ optName = ""
  /\ last_line = <<>>
  /\ warnings = <<>>
  /\ written = <<>>
  /\ stdin = <<>>
  /\ stdout = <<>>
  /\ alive = TRUE
  /\ searching = 0
  /\ readyCount = 0
  /\ sentCount = 0
  /\ callReads = <<>>
  /\ eofSeen = FALSE
  /\ sawNoSuch = FALSE
  /\ rejected = {}
  /\ nops = 0

(* ------------------------------- writing ------------------------------- *)
\* where an exception leaves the caller: __init__ yields no object
FailPc == IF op = "init" THEN "failed" ELSE "idle"

\* put(command): write and flush; BrokenPipeError when the engine has exited
Put(line, kind, name, nextpc, okret, failpc) ==
  IF alive
  THEN /\ written' = Append(written, [line |-> line, kind |-> kind,
                                      name |-> name, rk |-> readyCount,
                                      sk |-> sentCount])
       /\ stdin' = Append(stdin, [kind |-> kind, name |-> name,
                                  id |-> Len(written) + 1])
       /\ pc' = nextpc
       /\ ret' = okret
  ELSE /\ UNCHANGED <<written, stdin>>
       /\ pc' = failpc
       /\ ret' = Raise("BrokenPipeError")

(* ----------------------------- construction ---------------------------- *)
\* __init__ up to put('uci')
Construct(d, pnd, prm, rnd, lo, hi) ==
  /\ pc = "new"
  /\ op' = "init"
  /\ depth' = ToString(d)
  /\ ponder' = pnd
  /\ args' = [depth |-> d, param |-> prm, rand |-> rnd, rand_min |-> lo,
              rand_max |-> hi]
  /\ Put("uci", "uci", "", "init_ponder", NoResult, "failed")
  /\ UNCHANGED <<ret_pc, param, optIdx, optName, last_line, warnings, nops>>
  /\ UNCHANGED engineVars
  /\ UNCHANGED readVars

\* __init__: if not ponder: self.setoption('Ponder', False)
InitPonder ==
  /\ pc = "init_ponder"
  /\ IF ~ponder
     THEN /\ optName' = "Ponder"
          /\ ret_pc' = "init_table"
          /\ Put(SetoptionLine("Ponder", BoolV(FALSE)), "setoption", "Ponder",
                 "isready_put", NoResult, "failed")
     ELSE /\ pc' = "init_table"
          /\ UNCHANGED <<optName, ret_pc, written, stdin, ret>>
  /\ UNCHANGED <<op, depth, ponder, param, args, optIdx, last_line, warnings, nops>>
  /\ UNCHANGED engineVars
  /\ UNCHANGED readVars

\* __init__: base_param, the rand block, update(param), self.param
InitTable ==
  /\ pc = "init_table"
  /\ \/ /\ args.rand
        /\ args.rand_min > args.rand_max
        /\ pc' = "failed"
        /\ ret' = Raise("ValueError")
        /\ UNCHANGED param
     \/ /\ args.rand
        /\ \E r1, r2 \in args.rand_min..args.rand_max :
             param' = Update(RandParam(TRUE, r1, r2), args.param)
        /\ pc' = "init_loop"
        /\ UNCHANGED ret
     \/ /\ ~args.rand
        /\ param' = Update(RandParam(FALSE, 0, 0), args.param)
        /\ pc' = "init_loop"
        /\ UNCHANGED ret
  /\ optIdx' = 0
  /\ optName' = ""
  /\ UNCHANGED <<op, ret_pc, depth, ponder, args, last_line, warnings, nops>>
  /\ UNCHANGED <<written, stdin>>
  /\ UNCHANGED engineVars
  /\ UNCHANGED readVars

\* __init__: one iteration of "for name, value in list(base_param.items())"
InitLoop ==
  /\ pc = "init_loop"
  /\ IF optIdx < Len(param)
     THEN /\ optIdx' = optIdx + 1
          /\ optName' = param[optIdx + 1].k
          /\ ret_pc' = "init_loop"
          /\ Put(SetoptionLine(param[optIdx + 1].k, param[optIdx + 1].v),
                 "setoption", param[optIdx + 1].k, "isready_put", NoResult, "failed")
     ELSE /\ pc' = "idle"
          /\ ret' = ReturnNone
          /\ optName' = ""
          /\ UNCHANGED <<optIdx, ret_pc, written, stdin>>
  /\ UNCHANGED <<op, depth, ponder, param, args, last_line, warnings, nops>>
  /\ UNCHANGED engineVars
  /\ UNCHANGED readVars

(* ------------------------------- isready ------------------------------- *)
\* isready: put('isready')
IsreadyPut ==
  /\ pc = "isready_put"
  /\ Put("isready", "isready", "", "isready_read", NoResult, FailPc)
  /\ callReads' = IF alive THEN <<>> ELSE callReads
  /\ sawNoSuch' = FALSE
  /\ optName' = IF alive THEN optName ELSE ""
  /\ UNCHANGED <<op, ret_pc, depth, ponder, param, args, optIdx, last_line,
                 warnings, nops>>
  /\ UNCHANGED engineVars
  /\ UNCHANGED <<readyCount, sentCount, eofSeen, rejected>>

\* self.stdout.readline() can return: a line is waiting, or the stream ended
CanRead == stdout # <<>> \/ ~alive
AtEof == stdout = <<>> /\ ~alive
ReadLine == IF stdout # <<>> THEN Head(stdout).text ELSE <<>>

\* the line, stripped, is the engine's answer to isready
IsReadyok(line) == Flatten(Strip(line)) = "readyok"

\* the line, stripped, ends a uci, an isready or a go
IsSentinel(line) ==
  \/ Flatten(Strip(line)) \in {"uciok", "readyok"}
  \/ Flatten(Split(Strip(line))[1]) = "bestmove"

\* isready: one iteration of the while loop; setoption's check of the
\* returned text when the call came from setoption
IsreadyRead ==
  /\ pc = "isready_read"
  /\ CanRead
  /\ LET line == ReadLine
         text == Strip(line)
         saw == sawNoSuch \/ Find(text, NoSuch)
     IN /\ stdout' = IF stdout # <<>> THEN Tail(stdout) ELSE stdout
        /\ eofSeen' = (eofSeen \/ AtEof)
        /\ callReads' = IF AtEof THEN callReads ELSE Append(callReads, line)
        /\ sentCount' = IF IsSentinel(line) THEN sentCount + 1 ELSE sentCount
        /\ readyCount' = IF IsReadyok(line) THEN readyCount + 1 ELSE readyCount
        /\ IF IsreadyMatch(text)
           THEN /\ pc' = ret_pc
                /\ ret' = ReturnText(IsreadyReturn(line, text))
                /\ sawNoSuch' = FALSE
                /\ IF optName # ""
                   THEN /\ warnings' =
                             IF Find(IsreadyReturn(line, text), NoSuch)
                             THEN Append(warnings, optName)
                             ELSE warnings
                        /\ rejected' =
                             IF saw THEN rejected \cup {optName} ELSE rejected
                   ELSE UNCHANGED <<warnings, rejected>>
                /\ optName' = ""
           ELSE /\ sawNoSuch' = saw
                /\ UNCHANGED <<pc, ret, warnings, rejected, optName>>
  /\ UNCHANGED <<op, ret_pc, depth, ponder, param, args, optIdx, last_line, nops>>
  /\ UNCHANGED <<written, stdin, alive, searching>>

(* -------------------------- public operations -------------------------- *)
CanCall == pc = "idle" /\ nops < MaxOps

callFrame ==
  <<depth, ponder, param, args, optIdx, optName, warnings>>

\* newgame: put('ucinewgame'), then isready
Newgame ==
  /\ CanCall
  /\ op' = "newgame"
  /\ nops' = nops + 1
  /\ ret_pc' = "idle"
  /\ Put("ucinewgame", "ucinewgame", "", "isready_put", NoResult, "idle")
  /\ UNCHANGED <<callFrame, last_line>>
  /\ UNCHANGED engineVars
  /\ UNCHANGED readVars

\* setposition(moves): put('position startpos moves ...'), then isready
Setposition(moves) ==
  /\ CanCall
  /\ op' = "setposition"
  /\ nops' = nops + 1
  /\ ret_pc' = "idle"
  /\ Put(PositionLine(moves), "position", "", "isready_put", NoResult, "idle")
  /\ UNCHANGED <<callFrame, last_line>>
  /\ UNCHANGED engineVars
  /\ UNCHANGED readVars

\* setfenposition(fen): put('position fen ...'), then isready
Setfenposition(fen) ==
  /\ CanCall
  /\ op' = "setfenposition"
  /\ nops' = nops + 1
  /\ ret_pc' = "idle"
  /\ Put(FenLine(fen), "position", "", "isready_put", NoResult, "idle")
  /\ UNCHANGED <<callFrame, last_line>>
  /\ UNCHANGED engineVars
  /\ UNCHANGED readVars

\* isready() called by the user: put('isready')
Isready ==
  /\ CanCall
  /\ op' = "isready"
  /\ nops' = nops + 1
  /\ ret_pc' = "idle"
  /\ Put("isready", "isready", "", "isready_read", NoResult, "idle")
  /\ callReads' = IF alive THEN <<>> ELSE callReads
  /\ sawNoSuch' = FALSE
  /\ UNCHANGED <<callFrame, last_line>>
  /\ UNCHANGED engineVars
  /\ UNCHANGED <<readyCount, sentCount, eofSeen, rejected>>

\* go(): put('go depth ...')
Go ==
  /\ CanCall
  /\ op' = "go"
  /\ nops' = nops + 1
  /\ Put(GoLine(depth), "go", "", "idle", ReturnNone, "idle")
  /\ UNCHANGED <<callFrame, last_line, ret_pc>>
  /\ UNCHANGED engineVars
  /\ UNCHANGED readVars

StopDrain ==
  /\ CanCall
  /\ op' = "stop"
  /\ nops' = nops + 1
  /\ Put("stop", "stop", "", "idle", ReturnNone, "idle")
  /\ UNCHANGED <<callFrame, last_line, ret_pc>>
  /\ stdout' = IF stdout # <<>> THEN Tail(stdout) ELSE stdout
  /\ UNCHANGED <<alive, searching>>
  /\ UNCHANGED readVars

\* stop(): put('stop')
Stop ==
  /\ CanCall
  /\ op' = "stop"
  /\ nops' = nops + 1
  /\ Put("stop", "stop", "", "idle", ReturnNone, "idle")
  /\ UNCHANGED <<callFrame, last_line, ret_pc>>
  /\ UNCHANGED engineVars
  /\ UNCHANGED readVars

FirstLastLineStale == last_line

\* bestmove: last_line = "" before the loop
FirstLastLine == <<>>

\* bestmove(): last_line = "", self.go()
Bestmove ==
  /\ CanCall
  /\ op' = "bestmove"
  /\ nops' = nops + 1
  /\ last_line' = FirstLastLine
  /\ Put(GoLine(depth), "go", "", "bestmove_read", NoResult, "idle")
  /\ callReads' = IF alive THEN <<>> ELSE callReads
  /\ UNCHANGED <<callFrame, ret_pc>>
  /\ UNCHANGED engineVars
  /\ UNCHANGED <<readyCount, sentCount, eofSeen, sawNoSuch, rejected>>

\* bestmove: one iteration of the while loop
BestmoveRead ==
  /\ pc = "bestmove_read"
  /\ CanRead
  /\ LET line == ReadLine
         text == Strip(line)
         split_text == Split(text)
     IN /\ stdout' = IF stdout # <<>> THEN Tail(stdout) ELSE stdout
        /\ eofSeen' = (eofSeen \/ AtEof)
        /\ callReads' = IF AtEof THEN callReads ELSE Append(callReads, line)
        /\ sentCount' = IF IsSentinel(line) THEN sentCount + 1 ELSE sentCount
        /\ IF BestmoveMatch(split_text)
           THEN /\ pc' = "idle"
                /\ ret' = BestmoveReturn(split_text, last_line)
                /\ UNCHANGED last_line
           ELSE /\ last_line' = NextLastLine(last_line, text)
                /\ UNCHANGED <<pc, ret>>
  /\ UNCHANGED <<op, ret_pc, callFrame, nops>>
  /\ UNCHANGED <<written, stdin, alive, searching>>
  /\ UNCHANGED <<readyCount, sawNoSuch, rejected>>

(* ------------------------------- engine -------------------------------- *)
\* readyok lines the engine has printed so far: one per isready it has taken
ReadyokPrinted ==
  Cardinality({i \in DOMAIN written : written[i].kind = "isready"})
    - Cardinality({i \in DOMAIN stdin : stdin[i].kind = "isready"})

\* the engine prints lines in answer to command id; each line is marked with
\* the number of readyok lines printed before it
Emit(lines, id) ==
  stdout' = stdout \o [i \in 1..Len(lines) |->
                        [text |-> lines[i], src |-> id, era |-> ReadyokPrinted]]

EngineTakes(kinds) ==
  /\ alive
  /\ stdin # <<>>
  /\ Head(stdin).kind \in kinds
  /\ stdin' = Tail(stdin)

sessionFrame ==
  <<pc, op, ret_pc, ret, sessionVars, written, readVars, nops>>

\* the engine answers uci with uciok
EngineUci ==
  /\ EngineTakes({"uci"})
  /\ Emit(<<UciokLine>>, Head(stdin).id)
  /\ UNCHANGED <<alive, searching>>
  /\ UNCHANGED sessionFrame

\* the engine takes a setoption: silent, unless it has no option of that name
EngineSetoption ==
  /\ EngineTakes({"setoption"})
  /\ IF Head(stdin).name \in UnknownOptions
     THEN Emit(<<NoSuchLine(Head(stdin).name)>>, Head(stdin).id)
     ELSE Emit(<<>>, Head(stdin).id)
  /\ UNCHANGED <<alive, searching>>
  /\ UNCHANGED sessionFrame

\* the engine answers isready at once, searching or not
EngineIsready ==
  /\ EngineTakes({"isready"})
  /\ Emit(<<ReadyokLine>>, Head(stdin).id)
  /\ UNCHANGED <<alive, searching>>
  /\ UNCHANGED sessionFrame

\* ucinewgame, position and stop print nothing
EngineQuiet ==
  /\ EngineTakes({"ucinewgame", "position", "stop"})
  /\ UNCHANGED <<stdout, alive, searching>>
  /\ UNCHANGED sessionFrame

\* the engine starts a search; a go waits for the running search to end
EngineGo ==
  /\ EngineTakes({"go"})
  /\ searching = 0
  /\ searching' = Head(stdin).id
  /\ UNCHANGED <<stdout, alive>>
  /\ UNCHANGED sessionFrame

\* the search ends (depth reached or stopped): info lines, then one of the
\* given bestmove lines
EngineEndsSearch(lines) ==
  /\ alive
  /\ searching # 0
  /\ \E bm \in lines :
       \/ Emit(<<bm>>, searching)
       \/ \E info \in InfoLines : Emit(<<info, bm>>, searching)
  /\ searching' = 0
  /\ UNCHANGED <<stdin, alive>>
  /\ UNCHANGED sessionFrame

\* the search ends with any form of bestmove line
EngineBestmove == EngineEndsSearch(BestmoveLines)

\* the engine process exits; what it printed stays readable
EngineExit ==
  /\ alive
  /\ pc # "new"
  /\ alive' = FALSE
  /\ stdin' = <<>>
  /\ searching' = 0
  /\ UNCHANGED stdout
  /\ UNCHANGED sessionFrame

(* ---------------------------- specification ---------------------------- *)
\* a session built with the default option table, and every operation on it
Next ==
  \/ \E d \in Depths : Construct(d, FALSE, <<>>, FALSE, -10, 10)
  \/ InitPonder
  \/ InitTable
  \/ InitLoop
  \/ IsreadyPut
  \/ IsreadyRead
  \/ Newgame
  \/ \E moves \in MoveLists : Setposition(moves)
  \/ \E fen \in Fens : Setfenposition(fen)
  \/ Isready
  \/ Go
  \/ Stop
  \/ Bestmove
  \/ BestmoveRead
  \/ EngineUci
  \/ EngineSetoption
  \/ EngineIsready
  \/ EngineQuiet
  \/ EngineGo
  \/ EngineBestmove
  \/ EngineExit

Spec == Init /\ [][Next]_vars

\* construction alone, over all the constructor arguments
NextInit ==
  \/ \E d \in Depths, pnd \in BOOLEAN, prm \in ParamChoices :
       \/ Construct(d, pnd, prm, FALSE, -10, 10)
       \/ \E r \in RandRanges : Construct(d, pnd, prm, TRUE, r[1], r[2])
  \/ InitPonder
  \/ InitTable
  \/ InitLoop
  \/ IsreadyPut
  \/ IsreadyRead
  \/ EngineUci
  \/ EngineSetoption
  \/ EngineIsready
  \/ EngineExit

SpecInit == Init /\ [][NextInit]_vars

(* ------------------------------- claims -------------------------------- *)
Mutating(e) == e.kind \in {"setoption", "ucinewgame", "position"}
Warned == {warnings[i] : i \in DOMAIN warnings}

\* sentinel-awaiting commands written before written[i] whose sentinel line
\* had not been read when written[i] was written
PendingAll(i) ==
  Cardinality({j \in 1..(i - 1) : written[j].kind \in {"uci", "isready", "go"}})
    - written[i].sk

\* isready commands written before written[i] whose readyok had not been
\* read when written[i] was written
PendingReady(i) ==
  Cardinality({j \in 1..(i - 1) : written[j].kind = "isready"}) - written[i].rk

\* C1: every setoption, ucinewgame and position line written is directly
\* followed by an isready line (the session is about to write it, or the
\* write failed because the engine had exited and nothing is written after),
\* and the line after that isready is written only after a readyok was read.
C1_SyncAfterMutation ==
  \A i \in DOMAIN written :
    Mutating(written[i]) =>
      /\ i < Len(written) => written[i + 1].line = "isready"
      /\ i + 1 < Len(written) => written[i + 2].rk > written[i + 1].rk
      /\ i = Len(written) => \/ pc = "isready_put"
                             \/ ~alive /\ ret.exc = "BrokenPipeError"

\* a session that has synchronised after a setoption, a ucinewgame and a
\* position command and written a further command after each
C1_Witness ==
  /\ pc = "idle"
  /\ \E i, j, k \in DOMAIN written :
       /\ written[i].kind = "setoption"
       /\ written[j].kind = "ucinewgame"
       /\ written[k].kind = "position"
       /\ i < j /\ j + 1 < k /\ k < Len(written)

\* C2 as stated: no command is written while the uciok, readyok or bestmove
\* of an earlier command is unread.
C2_OneInFlight == \A i \in DOMAIN written : PendingAll(i) = 0

\* C2, amended: no command is written while the readyok of an earlier
\* isready is unread.
C2_OneIsreadyInFlight == \A i \in DOMAIN written : PendingReady(i) = 0

\* stop was written while the bestmove of an earlier go was unread
C2_Witness ==
  /\ pc = "idle"
  /\ \E i \in DOMAIN written :
       /\ written[i].kind = "stop"
       /\ \E j \in 1..(i - 1) : written[j].kind = "go"
       /\ PendingAll(i) > 0

\* C3: once a readline has hit end-of-stream, the read loop has ended and
\* the call has raised an error.
C3_EofEndsRead ==
  eofSeen => pc \notin {"isready_read", "bestmove_read"} /\ ret.kind = "raise"

\* C4: every option whose setoption read a 'No such' line before readyok has
\* been named in a warning, and construction has not failed because of it.
C4_WarnOnNoSuch ==
  /\ rejected \subseteq Warned
  /\ (pc = "failed" => ret.exc \in {"BrokenPipeError", "ValueError"})

\* C5: a returned isready has returned exactly 'readyok'.
C5_IsreadyReturnsReadyok ==
  ret.kind = "text" => Flatten(ret.text) = "readyok"

\* isready returned after reading a stale bestmove line and other lines
C5_Witness ==
  /\ ret.kind = "text"
  /\ pc = "idle"
  /\ Len(callReads) >= 3
  /\ \E i \in DOMAIN callReads : callReads[i] \in BestmoveLines

\* bestmove() has ended on a line it took for the bestmove line
SearchEnded ==
  /\ pc = "idle"
  /\ op = "bestmove"
  /\ ret.kind \in {"return", "raise"}
  /\ ret.exc # "BrokenPipeError"
EndTokens == Split(Strip(callReads[Len(callReads)]))

Overlay(prm, k) ==
  IF k \in KeysOf(prm) THEN prm[Lookup(prm, k)].v
  ELSE BaseParam[Lookup(BaseParam, k)].v

\* self.param has been assigned
TableBuilt == param # <<>>

\* the setoption lines __init__ wrote from its for loop
TableFirst == IF ponder THEN 2 ELSE 4
TableSent ==
  {i \in TableFirst..Len(written) : written[i].kind = "setoption"}

ContemptKeys == {"Contempt", "Contempt Factor"}

\* C8: the values held and sent for "Contempt" and "Contempt Factor", when
\* not overridden, are integers within [rand_min, rand_max] if rand is set
\* and the integer 0 otherwise.
C8_ContemptInRange ==
  TableBuilt =>
    \A k \in ContemptKeys \ KeysOf(args.param) :
      LET v == param[Lookup(param, k)].v
      IN /\ v.t = "int"
         /\ IF args.rand
            THEN args.rand_min <= v.i /\ v.i <= args.rand_max
            ELSE v.i = 0
         /\ \A i \in TableSent :
              written[i].name = k =>
                written[i].line = "setoption name " \o k \o " value " \o ToString(v.i)

\* C9: the first line written is uci; with ponder off the second is
\* 'setoption name Ponder value false' and precedes the table's setoptions;
\* with ponder on no Ponder setoption is written unless it is overridden.
C9_UciThenPonder ==
  pc # "new" =>
    /\ written # <<>> => written[1].line = "uci"
    /\ ~ponder /\ Len(written) >= 2 =>
         written[2].line = "setoption name Ponder value false"
    /\ ponder /\ "Ponder" \notin KeysOf(args.param) =>
         \A i \in DOMAIN written : written[i].name # "Ponder"

\* C10: the info of a search result is the last line the call read before
\* the bestmove line, stripped as the loop strips every line, and '' when
\* the bestmove line was the first line the call read.
C10_InfoIsPrecedingLine ==
  SearchEnded /\ ret.kind = "return" =>
    ret.info = IF Len(callReads) = 1
               THEN ""
               ELSE Flatten(Strip(callReads[Len(callReads) - 1]))

\* a second search returned the info line it read ahead of its bestmove line
C10_Witness ==
  /\ SearchEnded
  /\ ret.kind = "return"
  /\ Len(callReads) >= 2
  /\ ret.info = "info depth 1"
  /\ Cardinality({i \in DOMAIN written : written[i].kind = "go"}) = 2

\* the reference ' '.join(moves)
RECURSIVE Join(_)
Join(moves) ==
  IF moves = <<>> THEN <<>>
  ELSE IF Len(moves) = 1 THEN Head(moves)
  ELSE Head(moves) \o <<" ">> \o Join(Tail(moves))

PositionPrefix == "position startpos moves "

\* the step of setposition(moves) on a running engine wrote one line,
\* the prefix followed by the text part, and goes on to isready
WroteMoves(part) ==
  /\ Len(written') = Len(written) + 1
  /\ SubSeq(written', 1, Len(written)) = written
  /\ written'[Len(written')].line = PositionPrefix \o Flatten(part)
  /\ pc' = "isready_put"

\* C11 as stated: setposition(moves) writes one line, the prefix followed by
\* the space-join of the moves, for every move list, then goes on to isready.
C11_LineIsJoin ==
  [][\A moves \in MoveLists :
       Setposition(moves) /\ alive => WroteMoves(Join(moves))]_vars

\* C11, amended: setposition(moves) writes one line, the prefix followed by
\* the space-join of the moves with leading and trailing whitespace removed,
\* then goes on to isready.
C11_LineIsStrippedJoin ==
  [][\A moves \in MoveLists :
       Setposition(moves) /\ alive => WroteMoves(Strip(Join(moves)))]_vars

\* setposition has sent a list with an empty move and moves with leading
\* and trailing blanks, and its isready has returned
C11_Witness ==
  /\ pc = "idle"
  /\ op = "setposition"
  /\ ret.kind = "text"
  /\ \E i \in DOMAIN written :
       /\ written[i].line = "position startpos moves e2e4  e7e5"
       /\ i < Len(written)
       /\ written[i + 1].line = "isready"

\* the step wrote exactly the one line given
WroteLine(line) ==
  /\ Len(written') = Len(written) + 1
  /\ SubSeq(written', 1, Len(written)) = written
  /\ written'[Len(written')].line = line

\* C12: a call of stop() is one step that writes the line 'stop' and nothing
\* else (nothing at all, raising BrokenPipeError, when the engine has
\* exited), returns without reading, so every unread line stays unread, and
\* leaves depth, ponder and the option table as they were.
C12_StopOnlyWrites ==
  [][op' = "stop" /\ nops' = nops + 1 =>
       /\ IF alive
          THEN WroteLine("stop") /\ ret' = ReturnNone
          ELSE written' = written /\ ret' = Raise("BrokenPipeError")
       /\ stdout' = stdout
       /\ pc' = "idle"
       /\ UNCHANGED <<depth, ponder, param>>]_vars

\* stop() has returned and the bestmove line of the search it stopped is
\* still unread
C12_Witness ==
  /\ pc = "idle"
  /\ op = "stop"
  /\ ret = ReturnNone
  /\ written[Len(written)].line = "stop"
  /\ \E i \in DOMAIN stdout : stdout[i].text \in BestmoveLines

\* index in written of the latest go command
LastGo ==
  CHOOSE i \in DOMAIN written :
    /\ written[i].kind = "go"
    /\ \A j \in DOMAIN written : written[j].kind = "go" => j <= i

\* C13: the bestmove line on which bestmove() returns a result was printed
\* by the engine in answer to the go that this call wrote.
C13_OwnBestmove ==
  [][pc = "bestmove_read" /\ pc' = "idle" /\ ret'.kind = "return" =>
       Head(stdout).src = LastGo]_vars

\* the reference text.split(): the maximal runs of non-whitespace atoms
RECURSIVE WSplit(_)
WSplit(s) ==
  LET t == LStrip(s)
  IN IF t = <<>> THEN <<>>
     ELSE LET n == IF \E i \in DOMAIN t : t[i] \in Whitespace
                   THEN (CHOOSE i \in DOMAIN t :
                           /\ t[i] \in Whitespace
                           /\ \A j \in 1..(i - 1) : t[j] \notin Whitespace) - 1
                   ELSE Len(t)
          IN <<Flatten(SubSeq(t, 1, n))>> \o WSplit(SubSeq(t, n + 1, Len(t)))

\* the first whitespace-separated token of the line is bestmove
WsBestmove(line) == WSplit(line) # <<>> /\ WSplit(line)[1] = "bestmove"

\* C14: the read loop of bestmove() stops at every line whose first
\* whitespace-separated token is bestmove; the move returned is the second
\* such token and the ponder the fourth; without a move token the call ends
\* with an error.
C14_WhitespaceTokens ==
  /\ pc = "bestmove_read" =>
       \A i \in DOMAIN callReads : ~WsBestmove(callReads[i])
  /\ SearchEnded =>
       LET t == WSplit(callReads[Len(callReads)])
       IN /\ WsBestmove(callReads[Len(callReads)])
          /\ IF Len(t) >= 2
             THEN /\ ret.kind = "return"
                  /\ ret.move = t[2]
                  /\ Len(t) >= 4 => ret.ponder = t[4]
             ELSE ret.kind = "raise"

\* the bestmove lines that carry a move token
MoveBestmoveLines ==
  {bm \in BestmoveLines : WsBestmove(bm) /\ Len(WSplit(bm)) >= 2}

\* the engine ends every search with a bestmove line that carries a move
EngineBestmoveMove == EngineEndsSearch(MoveBestmoveLines)

\* the steps the caller's thread and the engine process take by themselves
Progress ==
  \/ InitPonder
  \/ InitTable
  \/ InitLoop
  \/ IsreadyPut
  \/ IsreadyRead
  \/ BestmoveRead
  \/ EngineUci
  \/ EngineSetoption
  \/ EngineIsready
  \/ EngineQuiet
  \/ EngineGo
  \/ EngineBestmoveMove

\* an engine that never exits and answers every go with a move; the
\* caller's thread and the engine keep running
NextLive ==
  \/ \E d \in Depths : Construct(d, FALSE, <<>>, FALSE, -10, 10)
  \/ InitPonder
  \/ InitTable
  \/ InitLoop
  \/ IsreadyPut
  \/ IsreadyRead
  \/ Newgame
  \/ \E moves \in MoveLists : Setposition(moves)
  \/ \E fen \in Fens : Setfenposition(fen)
  \/ Isready
  \/ Go
  \/ Stop
  \/ Bestmove
  \/ BestmoveRead
  \/ EngineUci
  \/ EngineSetoption
  \/ EngineIsready
  \/ EngineQuiet
  \/ EngineGo
  \/ EngineBestmoveMove

SpecLive ==
  /\ Init
  /\ [][NextLive]_vars
  /\ WF_vars(\E d \in Depths : Construct(d, FALSE, <<>>, FALSE, -10, 10))
  /\ WF_vars(Progress)

\* C15: with an engine that stays alive and answers every isready and every
\* go (with a move), construction and every later call return, leaving the
\* session idle, and an idle session has had every option sent.
C15_CallsReturn ==
  /\ (pc # "idle") ~> (pc = "idle")
  /\ [](pc = "idle" => Cardinality(TableSent) = Len(BaseParam))

\* __init__ has returned
Constructed == pc = "idle" \/ op \notin {"none", "init"}

\* C16: once __init__ has returned no step changes the option table, the
\* ponder flag or the depth, and every go line written is 'go depth '
\* followed by the depth passed to __init__.
C16_ConfigFrozen ==
  [][/\ Constructed => UNCHANGED <<depth, ponder, param>>
     /\ \A i \in DOMAIN written' :
          written'[i].kind = "go" =>
            written'[i].line = "go depth " \o ToString(args'.depth)]_vars

\* a session built with depth 1 has run two operations, one of which wrote go
C16_Witness ==
  /\ pc = "idle"
  /\ nops = 2
  /\ args.depth = 1
  /\ \E i \in DOMAIN written : written[i].line = "go depth 1"

\* C17: isready returns on the readyok that answers its own isready line,
\* and when it returns every line the engine printed before that readyok
\* has been read: what is still unread was printed after it.
C17_IsreadyDrains ==
  [][pc = "isready_read" /\ pc' # "isready_read" =>
       /\ stdout # <<>>
       /\ IsReadyok(Head(stdout).text)
       /\ written[Len(written)].kind = "isready"
       /\ Head(stdout).src = Len(written)
       /\ stdout' = Tail(stdout)
       /\ \A i \in DOMAIN stdout' : stdout'[i].era > Head(stdout).era]_vars

\* the isready of setposition returned after discarding the bestmove line of
\* a search started by go(), and nothing is left to read
C17_Witness ==
  /\ pc = "idle"
  /\ op = "setposition"
  /\ ret.kind = "text"
  /\ \E i \in DOMAIN callReads : callReads[i] \in BestmoveLines
  /\ \E i \in DOMAIN written : written[i].kind = "go"
  /\ stdout = <<>>

====
